---- MODULE Spec2Model ----
(***************************************************************************)
(* A model of mya_getter: the parallel query dispatcher                     *)
(* (mya/_mya.py: do_parallel_queries) and the interval routines of trips.py *)
(* (collapse_overlapping_intervals, interval_overlap_any,                   *)
(* get_down_state_intervals, remove_repeat_values).                         *)
(*                                                                          *)
(* Each routine has its own specification (SpecParallel, SpecCollapse,      *)
(* SpecOverlap, SpecDown, SpecRepeat): Init draws the routine's arguments   *)
(* from bounded sets and the actions are the routine's statements.  The     *)
(* variables carry the names of the Python locals they model; a variable    *)
(* that a routine does not use stays at its idle value in that routine's    *)
(* specification.                                                           *)
(***************************************************************************)
EXTENDS Integers, Sequences, FiniteSets, TLC

VARIABLES
    pc,           \* control location of the routine being executed
    \* ---- do_parallel_queries
    queries,      \* the argument list; a query is identified by its 0-based list index
    max_workers,  \* the argument max_workers
    futures,      \* futures[k]: state of the future submitted for queries[k]
    outcome,      \* outcome[k]: what func(queries[k]) produced, once it finished
    finished,     \* as_completed: the futures already finished when it was called
    waiter,       \* as_completed: futures finished since, in order of completion
    yielded,      \* as_completed: the futures already handed to the loop body
    results,      \* the local list results
    mya_df,       \* the local mya_df
    exc,          \* the exception propagating out of the with block, if any
    \* ---- collapse_overlapping_intervals
    df,           \* the argument df; a row carries its index label idx
    tmp,          \* the local tmp
    out,          \* the value the routine returns
    \* ---- interval_overlap_any
    int1,         \* the argument int1, a Series of pd.Interval
    int2,         \* the argument int2
    overlaps,     \* the local list overlaps
    rf_overlaps,  \* the local list rf_overlaps
    start_j,      \* the local start_j
    examined,     \* (history) the number of int2 candidates examined so far
    i,            \* the loop variable i (0-based, as in the source)
    j,            \* the loop variable j (0-based)
    \* ---- get_down_state_intervals
    on_state,     \* the argument on_state
    off_state,    \* the argument off_state
    scan,         \* the locals s, e, starts, ends, the warnings issued, and (history)
                  \* the rows at which s and each emitted start and end were read
    \* ---- remove_repeat_values
    prev,         \* the local prev
    rows_to_drop, \* the local list rows_to_drop
    \* ---- MySamplerQuery.to_web_params
    interval,     \* self.interval, a string as the sequence of its characters
    web,          \* what the call produced: out['s'] in thousands, or the
                  \* ValueError raised
    \* ---- mySamplerWeb
    channels,     \* r.json()['channels']: per channel, in key order, its 'data' list
    samples,      \* the local dict samples: the Date list and the channel lists
    types,        \* the local dict types: the channels mapped to 'str'
    locals,       \* the locals idx and v, and the position in the channel's data
    web_df,       \* the DataFrame returned, or the error raised building it
    \* ---- process_input_file
    config,       \* the parsed config: its subcommand, and per query entry the
                  \* number of its periods
    cmd,          \* the local cmd
    cfg_queries,  \* the local list queries
    cfg_at,       \* the positions of the two loops: query entry and period (0-based)
    cfg_exc       \* the error raised, if any

parVars == <<queries, max_workers, futures, outcome, finished, waiter, yielded,
             results, mya_df, exc>>

tabVars == <<df, tmp, out>>

ovVars == <<int1, int2, overlaps, rf_overlaps, start_j, examined>>

loopVars == <<i, j>>

dsVars == <<on_state, off_state, scan>>

rrVars == <<prev, rows_to_drop>>

wpVars == <<interval, web>>

swVars == <<channels, samples, types, locals, web_df>>

cfVars == <<config, cmd, cfg_queries, cfg_at, cfg_exc>>

appVars == <<wpVars, swVars, cfVars>>

tripVars == <<parVars, tabVars, ovVars, loopVars, dsVars, rrVars>>

vars == <<pc, parVars, tabVars, ovVars, loopVars, dsVars, rrVars, appVars>>

----------------------------------------------------------------------------
(* Bounds of the model *)

MaxQueries == 3
MaxWorkers == 2
MaxFetchRows == 2
MaxIntervals == 3
MaxIntervalEnd == 5
MaxSeriesLen == 2
MaxSeriesEnd == 3
MaxLongLen == 5
MaxLongLeft == 1
MaxIntervalLen == 3
MaxChannels == 2
MaxSamples == 2
MaxConfigQueries == 2
MaxPeriods == 2
MaxRows == 4
MaxDate == 3
MaxTableRows == 4
MaxTableDate == 2

----------------------------------------------------------------------------
(* Helpers *)

Range(f) == {f[x] : x \in DOMAIN f}

RECURSIVE Flatten(_)
Flatten(ss) == IF ss = <<>> THEN <<>> ELSE Head(ss) \o Flatten(Tail(ss))

\* Python's None, for an exception slot and for a table not yet assigned.
NoError == [error |-> "", query |-> -1]
NoFrame == <<>>

\* pandas' missing value (NaN / NaT); timestamps and values are naturals.
NaN == -1

isna(v) == v = NaN

Min(S) == CHOOSE x \in S : \A y \in S : x <= y
Max(S) == CHOOSE x \in S : \A y \in S : x >= y

\* The variables of the routines that are not running.
IdleParallel ==
    /\ queries = <<>>
    /\ max_workers = 0
    /\ futures = <<>>
    /\ outcome = <<>>
    /\ finished = {}
    /\ waiter = <<>>
    /\ yielded = {}
    /\ results = <<>>
    /\ mya_df = NoFrame
    /\ exc = NoError

IdleTable ==
    /\ df = <<>>
    /\ tmp = <<>>
    /\ out = <<>>

IdleOverlap ==
    /\ int1 = <<>>
    /\ int2 = <<>>
    /\ overlaps = <<>>
    /\ rf_overlaps = <<>>
    /\ start_j = 0
    /\ examined = 0

IdleLoop ==
    /\ i = 0
    /\ j = 0

\* Python's None for a timestamp or a row number.
None == -2

IdleDown ==
    /\ on_state = 1
    /\ off_state = 0
    /\ scan = [s |-> None, e |-> None, starts |-> <<>>, ends |-> <<>>, warns |-> <<>>,
               s_row |-> None, start_rows |-> <<>>, end_rows |-> <<>>]

IdleRepeat ==
    /\ prev = None
    /\ rows_to_drop = <<>>

\* to_web_params has not produced anything.
NoParams == [s |-> None, error |-> ""]

IdleWebParams ==
    /\ interval = <<>>
    /\ web = NoParams

\* No DataFrame yet.
NoTable == [error |-> "", Date |-> <<>>, columns |-> <<>>, dtypes |-> <<>>]

IdleSamplerWeb ==
    /\ channels = <<>>
    /\ samples = [Date |-> <<>>, columns |-> <<>>]
    /\ types = {}
    /\ locals = [idx |-> 0, v |-> <<>>, n |-> 0]
    /\ web_df = NoTable

IdleConfig ==
    /\ config = [subcommand |-> "", queries |-> <<>>]
    /\ cmd = ""
    /\ cfg_queries = <<>>
    /\ cfg_at = [query |-> 0, period |-> 0]
    /\ cfg_exc = ""

IdleApp ==
    /\ IdleWebParams
    /\ IdleSamplerWeb
    /\ IdleConfig

IdleTrips ==
    /\ IdleParallel
    /\ IdleTable
    /\ IdleOverlap
    /\ IdleLoop
    /\ IdleDown
    /\ IdleRepeat

----------------------------------------------------------------------------
(* do_parallel_queries(func, queries, max_workers)        mya/_mya.py 15-39 *)

\* The DataFrame func(queries[k]) returns: n rows, each carrying the query it
\* answers and its row label within that frame.
FetchedFrame(q, n) == [r \in 1..n |-> [query |-> q, level_1 |-> r - 1]]

\* The exception func(queries[k]) raises when the source fails.
FetchError(q) == [error |-> "SourceUnavailable", query |-> q]

\* What a finished future holds: the frame func returned, or the exception it raised.
Returned(frame) == [frame |-> frame, exception |-> NoError]
Raised(e) == [frame |-> NoFrame, exception |-> e]
NotRun == [frame |-> NoFrame, exception |-> NoError]

IsError(o) == o.exception # NoError

NumRunning == Cardinality({k \in DOMAIN futures : futures[k] = "RUNNING"})
AllFinished == \A k \in DOMAIN futures : futures[k] = "FINISHED"

InitParallel ==
    /\ pc = "submit"
    /\ \E n \in 0..MaxQueries : queries = [k \in 1..n |-> k - 1]
    /\ max_workers \in 1..MaxWorkers
    /\ futures = <<>>
    /\ outcome = <<>>
    /\ finished = {}
    /\ waiter = <<>>
    /\ yielded = {}
    /\ results = <<>>
    /\ mya_df = NoFrame
    /\ exc = NoError
    /\ IdleTable
    /\ IdleOverlap
    /\ IdleLoop
    /\ IdleDown
    /\ IdleRepeat
    /\ IdleApp

\* lines 28-30: executor.submit(func, queries[i]) queues one work item.
Submit ==
    /\ pc = "submit"
    /\ Len(futures) < Len(queries)
    /\ futures' = Append(futures, "PENDING")
    /\ outcome' = Append(outcome, NotRun)
    /\ UNCHANGED <<pc, queries, max_workers, finished, waiter, yielded, results,
                   mya_df, exc, tabVars, ovVars, loopVars, dsVars, rrVars, appVars>>

\* line 24 with a pool that starts a thread for every work item
WorkerStartUnbounded ==
    /\ \E k \in DOMAIN futures :
          /\ futures[k] = "PENDING"
          /\ \A h \in 1..(k - 1) : futures[h] # "PENDING"
          /\ futures' = [futures EXCEPT ![k] = "RUNNING"]
    /\ UNCHANGED <<pc, queries, max_workers, outcome, finished, waiter, yielded,
                   results, mya_df, exc, tabVars, ovVars, loopVars, dsVars, rrVars, appVars>>

\* line 24: a pool thread takes the oldest queued work item; the pool never
\* runs more than max_workers threads.
WorkerStart ==
    /\ NumRunning < max_workers
    /\ \E k \in DOMAIN futures :
          /\ futures[k] = "PENDING"
          /\ \A h \in 1..(k - 1) : futures[h] # "PENDING"
          /\ futures' = [futures EXCEPT ![k] = "RUNNING"]
    /\ UNCHANGED <<pc, queries, max_workers, outcome, finished, waiter, yielded,
                   results, mya_df, exc, tabVars, ovVars, loopVars, dsVars, rrVars, appVars>>

\* line 30: func(queries[k]) returns a frame or raises; the future is set
\* FINISHED and, when as_completed is waiting, its waiter is told.
WorkerFinish ==
    /\ \E k \in DOMAIN futures :
          /\ futures[k] = "RUNNING"
          /\ futures' = [futures EXCEPT ![k] = "FINISHED"]
          /\ \/ \E n \in 1..MaxFetchRows :
                   outcome' = [outcome EXCEPT ![k] = Returned(FetchedFrame(queries[k], n))]
             \/ outcome' = [outcome EXCEPT ![k] = Raised(FetchError(queries[k]))]
          /\ waiter' = IF pc = "collect" THEN Append(waiter, k) ELSE waiter
    /\ UNCHANGED <<pc, queries, max_workers, finished, yielded, results, mya_df, exc,
                   tabVars, ovVars, loopVars, dsVars, rrVars, appVars>>

\* line 32: as_completed(futures) is entered once every query is submitted; it
\* records the set of futures that are finished already.
AsCompleted ==
    /\ pc = "submit"
    /\ Len(futures) = Len(queries)
    /\ finished' = {k \in DOMAIN futures : futures[k] = "FINISHED"}
    /\ pc' = "collect"
    /\ UNCHANGED <<queries, max_workers, futures, outcome, waiter, yielded, results,
                   mya_df, exc, tabVars, ovVars, loopVars, dsVars, rrVars, appVars>>

\* line 32: the futures as_completed may yield next: any member of the set of
\* futures that were finished at the call (a set has no order), and after
\* those the futures reported to the waiter, oldest first.
NextCompleted ==
    IF finished \ yielded # {} THEN finished \ yielded
    ELSE IF waiter # <<>> THEN {Head(waiter)}
    ELSE {}

\* line 33: results.append(future.result()); result() re-raises what func raised.
TakeSwallow(k) ==
    /\ yielded' = yielded \cup {k}
    /\ waiter' = IF k \in finished THEN waiter ELSE Tail(waiter)
    /\ results' = IF IsError(outcome[k]) THEN results ELSE Append(results, outcome[k].frame)
    /\ UNCHANGED <<pc, exc>>

Take(k) ==
    /\ yielded' = yielded \cup {k}
    /\ waiter' = IF k \in finished THEN waiter ELSE Tail(waiter)
    /\ IF IsError(outcome[k])
       THEN /\ exc' = outcome[k].exception
            /\ pc' = "exiting"
            /\ UNCHANGED results
       ELSE /\ results' = Append(results, outcome[k].frame)
            /\ UNCHANGED <<pc, exc>>

Collect ==
    /\ pc = "collect"
    /\ \E k \in NextCompleted : Take(k)
    /\ UNCHANGED <<queries, max_workers, futures, outcome, finished, mya_df, tabVars, ovVars, loopVars, dsVars, rrVars, appVars>>

\* line 36: pd.concat(results, keys=[query_0, ...]) labels every row of
\* results[p] (0-based p) with the p-th key; line 37 turns the labels into the
\* column level_0 and drops the per-frame row label level_1.
QueryKey(p) == p

TagFrame(frame, key) == [r \in DOMAIN frame |-> [level_0 |-> key, query |-> frame[r].query]]

ConcatWithKeys(frames) == Flatten([p \in DOMAIN frames |-> TagFrame(frames[p], QueryKey(p - 1))])

\* lines 32-37: the loop is over (every future was yielded); build mya_df.
\* pd.concat raises ValueError when there is nothing to concatenate.
Concat ==
    /\ pc = "collect"
    /\ yielded = DOMAIN futures
    /\ IF results = <<>>
       THEN /\ exc' = [error |-> "ValueError", query |-> -1]
            /\ pc' = "exiting"
            /\ UNCHANGED mya_df
       ELSE /\ mya_df' = ConcatWithKeys(results)
            /\ pc' = "concatenated"
            /\ UNCHANGED exc
    /\ UNCHANGED <<queries, max_workers, futures, outcome, finished, waiter, yielded,
                   results, tabVars, ovVars, loopVars, dsVars, rrVars, appVars>>

\* lines 24, 39: leaving the with block calls executor.shutdown(wait=True),
\* which returns once every submitted work item has run; then mya_df is returned.
Return ==
    /\ pc = "concatenated"
    /\ AllFinished
    /\ pc' = "returned"
    /\ UNCHANGED <<parVars, tabVars, ovVars, loopVars, dsVars, rrVars, appVars>>

\* line 24: an exception leaves the with block the same way: shutdown(wait=True)
\* lets the queued and running fetches finish, then the exception reaches the caller.
Raise ==
    /\ pc = "exiting"
    /\ AllFinished
    /\ pc' = "raised"
    /\ UNCHANGED <<parVars, tabVars, ovVars, loopVars, dsVars, rrVars, appVars>>

NextParallel ==
    \/ Submit
    \/ WorkerStart
    \/ WorkerFinish
    \/ AsCompleted
    \/ Collect
    \/ Concat
    \/ Return
    \/ Raise

SpecParallel == InitParallel /\ [][NextParallel]_vars

\* ---- properties of do_parallel_queries

Failed == {k \in DOMAIN futures : IsError(outcome[k])}

\* C1 (as claimed): in the table the call returns, every row tagged query_i was
\* produced by the fetch of queries[i], whatever the order of completion.
C1_TagNamesOriginatingQuery ==
    pc = "returned" =>
        \A r \in DOMAIN mya_df : mya_df[r].query = queries[mya_df[r].level_0 + 1]

\* C9: once a fetch has failed the call never builds or returns a table; it
\* ends by raising the failure of a failed fetch (of the failed fetch, when
\* only one failed), whatever the other fetches did and whenever they
\* finished; and until it has ended the call is never stuck.
C9_FailedFetchAbortsBatch ==
    /\ pc \in {"concatenated", "returned"} => Failed = {}
    /\ (pc = "raised" /\ Failed # {}) =>
          /\ mya_df = NoFrame
          /\ \E k \in Failed : exc = outcome[k].exception
    /\ pc \notin {"returned", "raised"} => ENABLED NextParallel

\* C9 witness: three fetches, exactly one failed; one frame was collected before
\* the failure was met and one fetch finished only during the shutdown.
C9_Witness ==
    /\ pc = "raised"
    /\ Len(futures) = 3
    /\ Cardinality(Failed) = 1
    /\ Len(results) = 1
    /\ Cardinality(yielded) = 2

----------------------------------------------------------------------------
(* collapse_overlapping_intervals(df, start, end, aggs=None)  trips.py 12-29 *)

\* The tables the routine is given: up to MaxIntervals rows with the default
\* index 0..n-1, each an interval with start < end.
IntervalRows == {[start |-> a, end |-> b] : a \in 0..MaxIntervalEnd, b \in 0..MaxIntervalEnd}

IntervalTables ==
    UNION {[1..n -> {r \in IntervalRows : r.start < r.end}] : n \in 0..MaxIntervals}

WithIndex(t) == [k \in DOMAIN t |-> [idx |-> k - 1, start |-> t[k].start, end |-> t[k].end]]

InitCollapse ==
    /\ pc = "sort_values"
    /\ \E t \in IntervalTables : df = WithIndex(t)
    /\ tmp = <<>>
    /\ out = <<>>
    /\ IdleParallel
    /\ IdleOverlap
    /\ IdleLoop
    /\ IdleDown
    /\ IdleRepeat
    /\ IdleApp

\* line 26: df.sort_values(start) returns the rows ordered by start; the
\* default sort is not stable, so rows with equal start come in any order.
IndexOrders(n) == {p \in [1..n -> 1..n] : \A a, b \in 1..n : a # b => p[a] # p[b]}

SortedByStart(t) ==
    {[k \in DOMAIN t |-> t[p[k]]] : p \in
        {q \in IndexOrders(Len(t)) :
            \A a, b \in 1..Len(t) : a < b => t[q[a]].start <= t[q[b]].start}}

SortValues ==
    /\ pc = "sort_values"
    /\ tmp' \in SortedByStart(df)
    /\ pc' = "interval_id"
    /\ UNCHANGED <<df, out, parVars, ovVars, loopVars, dsVars, rrVars, appVars>>

\* line 27: Series.shift() moves every value down one row and puts NaN first.
Column(t, c) == [k \in DOMAIN t |-> t[k][c]]

NoShift(col) == col

Shift(col) == [k \in DOMAIN col |-> IF k = 1 THEN NaN ELSE col[k - 1]]

\* line 27: Series.cummax() is the running maximum, skipping NaN (a NaN row stays NaN).
NoCumMax(col) == col

CumMax(col) ==
    [k \in DOMAIN col |->
        IF isna(col[k]) THEN NaN
        ELSE Max({col[h] : h \in {g \in 1..k : ~isna(col[g])}})]

\* line 27: a > b elementwise; a comparison with NaN is False.
Gt(a, b) == [k \in DOMAIN a |-> ~isna(a[k]) /\ ~isna(b[k]) /\ a[k] > b[k]]

\* line 27: cumsum() of booleans counts the True values so far.
CumSum(flags) == [k \in DOMAIN flags |-> Cardinality({h \in 1..k : flags[h]})]

IntervalIds(t) == CumSum(Gt(Column(t, "start"), CumMax(Shift(Column(t, "end")))))

AssignIntervalId ==
    /\ pc = "interval_id"
    /\ tmp' = [k \in DOMAIN tmp |->
                 [idx |-> tmp[k].idx, start |-> tmp[k].start, end |-> tmp[k].end,
                  interval_id |-> IntervalIds(tmp)[k]]]
    /\ pc' = "groupby"
    /\ UNCHANGED <<df, out, parVars, ovVars, loopVars, dsVars, rrVars, appVars>>

\* line 29: groupby(['interval_id']).agg({start: 'min', end: 'max'}): one row
\* per interval_id, in ascending order of interval_id.
GroupRows(t, g) == {k \in DOMAIN t : t[k].interval_id = g}

GroupByAgg(t) ==
    LET ids == {t[k].interval_id : k \in DOMAIN t}
        \* interval_id counts from 0 without gaps, so the g-th group is id g - 1
        nth(g) == CHOOSE id \in ids : Cardinality({x \in ids : x < id}) = g - 1
    IN  [g \in 1..Cardinality(ids) |->
            [interval_id |-> nth(g),
             start |-> Min({t[k].start : k \in GroupRows(t, nth(g))}),
             end |-> Max({t[k].end : k \in GroupRows(t, nth(g))})]]

GroupBy ==
    /\ pc = "groupby"
    /\ out' = GroupByAgg(tmp)
    /\ pc' = "collapsed"
    /\ UNCHANGED <<df, tmp, parVars, ovVars, loopVars, dsVars, rrVars, appVars>>

NextCollapse ==
    \/ SortValues
    \/ AssignIntervalId
    \/ GroupBy

SpecCollapse == InitCollapse /\ [][NextCollapse]_vars

\* ---- properties of collapse_overlapping_intervals

\* The input rows (by index label) aggregated into output row g.
Members(g) == {tmp[k].idx : k \in GroupRows(tmp, out[g].interval_id)}

InputRow(label) == df[label + 1]

\* Two intervals share a point of time, end points included.
ShareAPoint(a, b) ==
    \E t \in 0..(MaxIntervalEnd + 1) : a.start <= t /\ t <= a.end /\ b.start <= t /\ t <= b.end

\* Two intervals overlap as [start, end): they share an instant or the unit
\* of time that follows it.
OverlapHalfOpen(a, b) ==
    \E t \in 0..(MaxIntervalEnd + 1) : a.start <= t /\ t < a.end /\ b.start <= t /\ t < b.end

\* C2: every input interval is assigned to exactly one output group, lies
\* within its group's [min start, max end], and no two output groups overlap
\* (not even in an end point).
C2_GroupsPartitionCoverDisjoint ==
    pc = "collapsed" =>
        /\ \A k \in DOMAIN df :
              Cardinality({g \in DOMAIN out : df[k].idx \in Members(g)}) = 1
        /\ \A g \in DOMAIN out : \A label \in Members(g) :
              /\ out[g].start <= InputRow(label).start
              /\ InputRow(label).end <= out[g].end
        /\ \A g, h \in DOMAIN out : g # h => ~ShareAPoint(out[g], out[h])

\* C2 witness: three intervals given out of order; the last one overlaps only
\* the long first-starting one, and all three end in one group.
C2_Witness ==
    /\ pc = "collapsed"
    /\ Len(df) = 3
    /\ df[1].start > df[2].start
    /\ Len(out) = 1
    /\ \E a, b, c \in DOMAIN tmp :
          /\ a < b /\ b < c
          /\ tmp[c].start > tmp[b].end
          /\ tmp[c].start < tmp[a].end

Unchanged ==
    /\ Len(out) = Len(df)
    /\ \A k \in DOMAIN df : \E g \in DOMAIN out :
          /\ Members(g) = {df[k].idx}
          /\ out[g].start = df[k].start
          /\ out[g].end = df[k].end

\* C3 (as claimed): intervals that are pairwise non-overlapping as half-open
\* [start, end) come back unchanged, one group per interval.
C3_HalfOpenDisjointUnchanged ==
    (pc = "collapsed" /\ \A a, b \in DOMAIN df : a # b => ~OverlapHalfOpen(df[a], df[b]))
        => Unchanged

\* C3 (amended): intervals that pairwise share no point, end points included
\* (each ends strictly before the next starts), come back unchanged, one
\* group per interval with that interval's own start and end.
C3_SeparatedUnchanged ==
    (pc = "collapsed" /\ \A a, b \in DOMAIN df : a # b => ~ShareAPoint(df[a], df[b]))
        => Unchanged

\* C3 witness: three separated intervals, not given in order of start.
C3_Witness ==
    /\ pc = "collapsed"
    /\ Len(df) = 3
    /\ \A a, b \in DOMAIN df : a # b => ~ShareAPoint(df[a], df[b])
    /\ df[1].start > df[3].start
    /\ Len(out) = 3

----------------------------------------------------------------------------
(* interval_overlap_any(int1, int2)                          trips.py 32-54 *)

\* trips.py 224-226 builds the intervals as pd.Interval(start, end, closed='left').
Interval(left, right) == [left |-> left, right |-> right, closed |-> "left"]

closed_left(a) == a.closed \in {"left", "both"}
closed_right(a) == a.closed \in {"right", "both"}

\* pd.Interval.overlaps: an end point the two intervals have in common counts
\* only when both intervals are closed there.
IntervalOverlaps(a, b) ==
    /\ IF closed_left(a) /\ closed_right(b) THEN a.left <= b.right ELSE a.left < b.right
    /\ IF closed_left(b) /\ closed_right(a) THEN b.left <= a.right ELSE b.left < a.right

\* The Series the routine is given: up to MaxSeriesLen intervals with
\* left < right, in ascending order of left (the caller's precondition).
SeriesIntervals ==
    {x \in {Interval(a, b) : a \in 0..MaxSeriesEnd, b \in 0..MaxSeriesEnd} :
        x.left < x.right}

SortedSeries ==
    UNION {{x \in [1..n -> SeriesIntervals] :
               \A a, b \in 1..n : a < b => x[a].left <= x[b].left} : n \in 0..MaxSeriesLen}

\* lines 41-43
InitOverlap ==
    /\ pc = "for_i"
    /\ int1 \in SortedSeries
    /\ int2 \in SortedSeries
    /\ overlaps = [k \in DOMAIN int1 |-> FALSE]
    /\ rf_overlaps = [k \in DOMAIN int2 |-> FALSE]
    /\ start_j = 0
    /\ examined = 0
    /\ i = 0
    /\ j = 0
    /\ IdleParallel
    /\ IdleTable
    /\ IdleDown
    /\ IdleRepeat
    /\ IdleApp

\* The same call on longer series of intervals of length one, [a, a + 1).
LongSeries ==
    UNION {{x \in [1..n -> {Interval(a, a + 1) : a \in 0..MaxLongLeft}] :
               \A a, b \in 1..n : a < b => x[a].left <= x[b].left} : n \in 0..MaxLongLen}

InitOverlapLong ==
    /\ pc = "for_i"
    /\ int1 \in LongSeries
    /\ int2 \in LongSeries
    /\ overlaps = [k \in DOMAIN int1 |-> FALSE]
    /\ rf_overlaps = [k \in DOMAIN int2 |-> FALSE]
    /\ start_j = 0
    /\ examined = 0
    /\ i = 0
    /\ j = 0
    /\ IdleParallel
    /\ IdleTable
    /\ IdleDown
    /\ IdleRepeat
    /\ IdleApp

\* lines 44-45: the next i of range(len(int1)); the inner range starts at start_j.
ForI ==
    /\ pc = "for_i"
    /\ i < Len(int1)
    /\ j' = start_j
    /\ pc' = "for_j"
    /\ UNCHANGED <<i, ovVars, parVars, tabVars, dsVars, rrVars, appVars>>

\* line 49: the cursor after int2[j] matched.
CursorPastMatch(k) == k + 1

CursorBeforeMatch(k) == k - 1

CursorOnMatch(k) == k

\* lines 45-52: one pass of the inner loop, or its end when range(start_j,
\* len(int2)) is exhausted; a break or the end of the range moves on to the next i.
ForJ ==
    /\ pc = "for_j"
    /\ examined' = IF j >= Len(int2) THEN examined ELSE examined + 1
    /\ IF j >= Len(int2)
       THEN /\ i' = i + 1
            /\ pc' = "for_i"
            /\ UNCHANGED <<j, int1, int2, overlaps, rf_overlaps, start_j>>
       ELSE IF IntervalOverlaps(int1[i + 1], int2[j + 1])
       THEN /\ overlaps' = [overlaps EXCEPT ![i + 1] = TRUE]
            /\ rf_overlaps' = [rf_overlaps EXCEPT ![j + 1] = TRUE]
            /\ start_j' = CursorOnMatch(j)
            /\ i' = i + 1
            /\ pc' = "for_i"
            /\ UNCHANGED <<j, int1, int2>>
       ELSE IF int2[j + 1].left > int1[i + 1].right
       THEN /\ i' = i + 1
            /\ pc' = "for_i"
            /\ UNCHANGED <<j, int1, int2, overlaps, rf_overlaps, start_j>>
       ELSE /\ j' = j + 1
            /\ UNCHANGED <<pc, i, int1, int2, overlaps, rf_overlaps, start_j>>
    /\ UNCHANGED <<parVars, tabVars, dsVars, rrVars, appVars>>

\* line 54: return overlaps
ReturnOverlaps ==
    /\ pc = "for_i"
    /\ i >= Len(int1)
    /\ pc' = "overlap_done"
    /\ UNCHANGED <<ovVars, loopVars, parVars, tabVars, dsVars, rrVars, appVars>>

NextOverlap ==
    \/ ForI
    \/ ForJ
    \/ ReturnOverlaps

SpecOverlap == InitOverlap /\ [][NextOverlap]_vars

SpecOverlapLong == InitOverlapLong /\ [][NextOverlap]_vars

\* ---- properties of interval_overlap_any

\* Two intervals overlap as [left, right): some instant t lies in both.
TrulyOverlap(a, b) ==
    \E t \in 0..MaxSeriesEnd + 1 : a.left <= t /\ t < a.right /\ b.left <= t /\ t < b.right

\* C4: for sorted int1 and int2 the result has one entry per interval of
\* int1, true exactly when some interval of int2 overlaps it as [left, right)
\* (touching end points do not count); all false when int2 is empty.
C4_OverlapAnyIsExact ==
    pc = "overlap_done" =>
        /\ Len(overlaps) = Len(int1)
        /\ \A a \in DOMAIN int1 :
              overlaps[a] <=> \E b \in DOMAIN int2 : TrulyOverlap(int1[a], int2[b])

\* C4 witness: two intervals of int1 matched by different intervals of int2
\* (the cursor moved), int2 holding an interval that only touches one of int1.
C4_Witness ==
    /\ pc = "overlap_done"
    /\ Len(int1) = 2 /\ Len(int2) = 2
    /\ overlaps = <<TRUE, TRUE>>
    /\ start_j = 1
    /\ int2[1].right = int1[2].left

----------------------------------------------------------------------------
(* get_down_state_intervals(df, on_state=1, off_state=0)    trips.py 57-105 *)

\* The values of on_state and off_state the routine is called with:
\* the defaults (line 57) and the calls of lines 206 and 220.
StatePairs == {<<1, 0>>, <<0, 2>>, <<0, 1>>}

\* The values a reading takes: 0, 1, 2 or NaN (pd.to_numeric(errors='coerce')
\* turns an undefined sample into NaN, lines 162, 202, 215).
Readings == {0, 1, 2, NaN}

\* The tables the routine is given: up to MaxRows rows (Date, state) with the
\* default index, in time order; two rows may carry the same Date.
SampleTables ==
    UNION {{t \in [1..n -> [Date : 0..MaxDate, state : Readings]] :
               \A a, b \in 1..n : a < b => t[a].Date <= t[b].Date} : n \in 0..MaxRows}

\* lines 68-72
InitDown ==
    /\ pc = "scan"
    /\ df \in SampleTables
    /\ \E p \in StatePairs : on_state = p[1] /\ off_state = p[2]
    /\ scan = [s |-> None, e |-> None, starts |-> <<>>, ends |-> <<>>, warns |-> <<>>,
               s_row |-> None, start_rows |-> <<>>, end_rows |-> <<>>]
    /\ i = 0
    /\ j = 0
    /\ tmp = <<>>
    /\ out = <<>>
    /\ IdleParallel
    /\ IdleOverlap
    /\ IdleRepeat
    /\ IdleApp

\* lines 76-77, 91-92, 98-99, 102-103: s = None; e = None
Reset(st) == [st EXCEPT !.s = None, !.e = None, !.s_row = None]

\* lines 89-90, 101: warnings.warn(...) about the row being read
Warn(st, kind, row) == [st EXCEPT !.warns = Append(@, [kind |-> kind, row |-> row])]

\* lines 75-77: the reading is NaN
UnknownIgnored(st) == st

Unknown(st) == Reset(st)

\* lines 83, 86-87: s = df.Date[i]
StartInterval(st, date, row) == [st EXCEPT !.s = date, !.e = None, !.s_row = row]

\* lines 88-92: an off reading with a start in memory
RepeatedStartSilent(st, row) == Reset(st)

RepeatedStartKept(st, row) == Warn(st, "start", row)

RepeatedStartIgnored(st, row) == st

RepeatedStart(st, row) == Reset(Warn(st, "start", row))

\* lines 94-99: an on reading closes the interval
CloseIntervalKeepStart(st, date, row) ==
    [st EXCEPT !.starts = Append(@, st.s), !.ends = Append(@, date),
               !.start_rows = Append(@, st.s_row), !.end_rows = Append(@, row)]

CloseInterval(st, date, row) ==
    Reset([st EXCEPT !.starts = Append(@, st.s), !.ends = Append(@, date),
                     !.start_rows = Append(@, st.s_row), !.end_rows = Append(@, row)])

\* lines 100-103: an on reading with an end in memory
RepeatedEnd(st, row) == Reset(Warn(st, "end", row))

\* lines 75-103: the body of the loop for row number `row` (0-based)
ScanStep(st, row, date, value, on, off) ==
    IF isna(value) THEN Unknown(st)
    ELSE IF st.s = None /\ st.e = None
         THEN IF value = on THEN st ELSE StartInterval(st, date, row)
    ELSE IF value = off
         THEN IF st.s = None THEN StartInterval(st, date, row) ELSE RepeatedStart(st, row)
    ELSE IF value = on
         THEN IF st.e = None THEN CloseInterval(st, date, row) ELSE RepeatedEnd(st, row)
    ELSE st

\* lines 73-103: one pass of the loop
ScanRow ==
    /\ pc = "scan"
    /\ i < Len(df)
    /\ scan' = ScanStep(scan, i, df[i + 1].Date, df[i + 1].state, on_state, off_state)
    /\ i' = i + 1
    /\ UNCHANGED <<pc, j, df, tmp, out, on_state, off_state, parVars, ovVars, rrVars, appVars>>

\* line 105, were a start still in memory handed out as well
ReturnIntervalsFlush ==
    /\ pc = "scan"
    /\ i >= Len(df)
    /\ pc' = "down_done"
    /\ scan' = IF scan.s = None THEN scan
               ELSE [scan EXCEPT !.starts = Append(@, scan.s),
                                 !.start_rows = Append(@, scan.s_row)]
    /\ UNCHANGED <<loopVars, tabVars, on_state, off_state, parVars, ovVars, rrVars, appVars>>

\* line 105: return starts, ends
ReturnIntervals ==
    /\ pc = "scan"
    /\ i >= Len(df)
    /\ pc' = "down_done"
    /\ UNCHANGED <<loopVars, tabVars, dsVars, parVars, ovVars, rrVars, appVars>>

NextDown ==
    \/ ScanRow
    \/ ReturnIntervals

SpecDown == InitDown /\ [][NextDown]_vars

\* ---- properties of get_down_state_intervals

States == [k \in DOMAIN df |-> df[k].state]

\* The rows (1-based) holding an off reading that another reading follows.
OffRows == {k \in 1..(Len(df) - 1) : df[k].state = off_state}

NthOffRow(m) == CHOOSE k \in OffRows : Cardinality({h \in OffRows : h < k}) = m - 1

Alternating ==
    /\ \A k \in DOMAIN df : df[k].state \in {on_state, off_state}
    /\ \A k \in 1..(Len(df) - 1) : df[k].state # df[k + 1].state

\* C5: for readings that alternate between on and off, with no unknown, the
\* routine returns one interval per off reading that an on reading follows,
\* (Date of the off, Date of the next on), in scan order and nothing else;
\* [on, off, on] gives the single interval (t1, t2).
C5_AlternatingOneIntervalPerOff ==
    (pc = "down_done" /\ Alternating) =>
        /\ Len(scan.starts) = Cardinality(OffRows)
        /\ Len(scan.ends) = Cardinality(OffRows)
        /\ \A m \in 1..Cardinality(OffRows) :
              /\ scan.starts[m] = df[NthOffRow(m)].Date
              /\ scan.ends[m] = df[NthOffRow(m) + 1].Date
        /\ scan.warns = <<>>

\* C5 witness: [on, off, on, off] has returned its one interval.
C5_Witness ==
    /\ pc = "down_done"
    /\ States = <<on_state, off_state, on_state, off_state>>
    /\ Len(scan.starts) = 1

\* C6: no emitted interval has an unknown reading at a row from its start row
\* to its end row, the emitted timestamps are those of these rows, and
\* [off, NaN, on] gives no interval.
C6_UnknownAbandonsInterval ==
    /\ \A m \in DOMAIN scan.starts :
          /\ scan.start_rows[m] < scan.end_rows[m]
          /\ scan.starts[m] = df[scan.start_rows[m] + 1].Date
          /\ scan.ends[m] = df[scan.end_rows[m] + 1].Date
          /\ \A k \in scan.start_rows[m]..scan.end_rows[m] : ~isna(df[k + 1].state)
    /\ (pc = "down_done" /\ States = <<off_state, NaN, on_state>>) => scan.starts = <<>>

\* C6 witness: an off reading, then an unknown, then an off and an on reading
\* that give the only interval.
C6_Witness ==
    /\ pc = "down_done"
    /\ States = <<off_state, NaN, off_state, on_state>>
    /\ scan.start_rows = <<2>>
    /\ scan.end_rows = <<3>>

\* C7: [off, off, on] gives exactly one warning, at the second off, and at
\* most one interval; in general there are never more intervals than on
\* readings scanned.
C7_TwoOffsWarnAtMostOneInterval ==
    /\ (pc = "down_done" /\ States = <<off_state, off_state, on_state>>) =>
          /\ scan.warns = <<[kind |-> "start", row |-> 1]>>
          /\ Len(scan.starts) <= 1
    /\ Len(scan.starts) <= Cardinality({k \in 1..i : df[k].state = on_state})

\* C7 witness: [off, off, on] was scanned to its end.
C7_Witness ==
    /\ pc = "down_done"
    /\ States = <<off_state, off_state, on_state>>
    /\ Len(scan.warns) = 1

\* The row about to be read repeats a transition: an off reading with a start
\* pending, or an on reading with an end pending.
RepeatedTransition ==
    /\ pc = "scan"
    /\ i < Len(df)
    /\ \/ df[i + 1].state = off_state /\ scan.s # None
       \/ df[i + 1].state = on_state /\ scan.e # None

\* C8: reading a repeated transition adds one warning about that row, clears
\* the pending start and end, emits nothing, and the scan goes on to the next row.
C8_RepeatedTransitionWarnsAndDiscards ==
    [][RepeatedTransition =>
          /\ Len(scan'.warns) = Len(scan.warns) + 1
          /\ scan'.warns[Len(scan'.warns)].row = i
          /\ scan'.s = None /\ scan'.e = None
          /\ scan'.starts = scan.starts /\ scan'.ends = scan.ends
          /\ pc' = "scan" /\ i' = i + 1]_vars

\* C8 witness: a warning at the second off of [off, off, off, on], after
\* which the scan went on and emitted the interval of the last two rows.
C8_Witness ==
    /\ pc = "down_done"
    /\ States = <<off_state, off_state, off_state, on_state>>
    /\ scan.warns = <<[kind |-> "start", row |-> 1]>>
    /\ scan.start_rows = <<2>>

----------------------------------------------------------------------------
(* remove_repeat_values(df, values_col)                    trips.py 108-137 *)

\* The tables the routine is given: up to MaxTableRows rows (Date, value) in
\* any order, with the default index 0..n-1 (line 217 resets it).
ValueTables ==
    UNION {[1..n -> [Date : 0..MaxTableDate, value : {0, 1, NaN}]] : n \in 0..MaxTableRows}

WithIdx(t) == [k \in DOMAIN t |-> [idx |-> k - 1, Date |-> t[k].Date, value |-> t[k].value]]

InitRepeat ==
    /\ pc = "sort"
    /\ \E t \in ValueTables : df = WithIdx(t)
    /\ tmp = <<>>
    /\ out = <<>>
    /\ prev = None
    /\ rows_to_drop = <<>>
    /\ i = 0
    /\ j = 0
    /\ IdleParallel
    /\ IdleOverlap
    /\ IdleDown
    /\ IdleApp

\* line 120: the rows of t in ascending order of (Date, idx)
Before(a, b) == a.Date < b.Date \/ (a.Date = b.Date /\ a.idx < b.idx)

SortByDateIdx(t) ==
    [k \in DOMAIN t |->
        CHOOSE r \in Range(t) : Cardinality({x \in Range(t) : Before(x, r)}) = k - 1]

\* line 120: df.rename_axis('idx') returns a new frame; sort_values(inplace=True)
\* sorts that new frame, which is then dropped.  df itself is left as it was.
RenameAxisSortValues ==
    /\ pc = "sort"
    /\ tmp' = SortByDateIdx(df)
    /\ pc' = "loop"
    /\ UNCHANGED <<df, out, loopVars, rrVars, parVars, ovVars, dsVars, appVars>>

\* line 126: df[values_col][i] is the value of the row labelled i
ValueAt(t, label) == (CHOOSE r \in Range(t) : r.idx = label).value

\* line 131: prev == curr; NaN equals nothing, itself included
Equal(a, b) == ~isna(a) /\ ~isna(b) /\ a = b

\* lines 125-134 without line 134: prev keeps the first value
DropLoopStalePrev ==
    /\ pc = "loop"
    /\ i < Len(df)
    /\ LET curr == ValueAt(df, i)
       IN  IF prev = None
           THEN /\ prev' = curr
                /\ UNCHANGED rows_to_drop
           ELSE /\ rows_to_drop' =
                      IF Equal(prev, curr) THEN Append(rows_to_drop, i) ELSE rows_to_drop
                /\ UNCHANGED prev
    /\ i' = i + 1
    /\ UNCHANGED <<pc, j, tabVars, parVars, ovVars, dsVars, appVars>>

\* lines 125-134: one pass of the loop
DropLoop ==
    /\ pc = "loop"
    /\ i < Len(df)
    /\ LET curr == ValueAt(df, i)
       IN  IF prev = None
           THEN /\ prev' = curr
                /\ UNCHANGED rows_to_drop
           ELSE /\ rows_to_drop' =
                      IF Equal(prev, curr) THEN Append(rows_to_drop, i) ELSE rows_to_drop
                /\ prev' = curr
    /\ i' = i + 1
    /\ UNCHANGED <<pc, j, tabVars, parVars, ovVars, dsVars, appVars>>

\* line 137: df.drop(rows_to_drop) removes the rows with these labels;
\* reset_index(drop=True) numbers the remaining rows 0..m-1.  A row of the
\* result also records (history) the label it had in df.
DropRows(t, labels) == SelectSeq(t, LAMBDA r : r.idx \notin Range(labels))

ResetIndex(t) ==
    [k \in DOMAIN t |-> [idx |-> k - 1, Date |-> t[k].Date, value |-> t[k].value,
                         was |-> t[k].idx]]

DropAndReturn ==
    /\ pc = "loop"
    /\ i >= Len(df)
    /\ out' = ResetIndex(DropRows(df, rows_to_drop))
    /\ pc' = "repeat_done"
    /\ UNCHANGED <<df, tmp, loopVars, rrVars, parVars, ovVars, dsVars, appVars>>

NextRepeat ==
    \/ RenameAxisSortValues
    \/ DropLoop
    \/ DropAndReturn

SpecRepeat == InitRepeat /\ [][NextRepeat]_vars

\* ---- properties of remove_repeat_values

\* C10 (as claimed): the rows returned are in ascending order of (Date,
\* original row number), rows of equal Date keeping their original order,
\* also when the input is not in order of Date.
C10_ReturnedRowsInDateOrder ==
    pc = "repeat_done" =>
        \A a, b \in DOMAIN out :
            a < b => \/ out[a].Date < out[b].Date
                     \/ (out[a].Date = out[b].Date /\ out[a].was < out[b].was)

\* The input is in chronological order (its index is 0..n-1 by construction).
Chronological == \A a, b \in DOMAIN df : a < b => df[a].Date <= df[b].Date

\* Two readings are equal: the same number (NaN, as in Python, equals nothing).
SameReading(a, b) == a # NaN /\ b # NaN /\ a = b

\* The rows (1-based) of df that open a maximal run of equal consecutive values.
RunHeads == {k \in DOMAIN df : k = 1 \/ ~SameReading(df[k - 1].value, df[k].value)}

NthRunHead(m) == CHOOSE k \in RunHeads : Cardinality({h \in RunHeads : h < k}) = m - 1

\* C11: for a chronological input with index 0..n-1 the output is exactly the
\* first row of each maximal run of equal consecutive values, in input
\* order, so no two adjacent output rows have equal values.
C11_OutputIsRunHeads ==
    (pc = "repeat_done" /\ Chronological) =>
        /\ Len(out) = Cardinality(RunHeads)
        /\ \A m \in DOMAIN out :
              /\ out[m].was = df[NthRunHead(m)].idx
              /\ out[m].Date = df[NthRunHead(m)].Date
              /\ out[m].value = df[NthRunHead(m)].value
              /\ out[m].idx = m - 1
        /\ \A m \in 1..(Len(out) - 1) : ~SameReading(out[m].value, out[m + 1].value)

\* C11 witness: the chronological input 0, 0, 1, 1 came back as its rows 0 and 2.
C11_Witness ==
    /\ pc = "repeat_done"
    /\ Chronological
    /\ [k \in DOMAIN df |-> df[k].value] = <<0, 0, 1, 1>>
    /\ df[1].Date < df[4].Date
    /\ Len(out) = 2
    /\ out[2].was = 2

\* ---- further properties of get_down_state_intervals (checked under SpecDown)

\* C12 (as claimed): for time-ordered input (timestamps never decrease) the
\* emitted intervals satisfy start[m] < end[m] and end[m] <= start[m+1].
C12_IntervalsStrictlyOrdered ==
    /\ \A m \in DOMAIN scan.starts : scan.starts[m] < scan.ends[m]
    /\ \A m \in 1..(Len(scan.starts) - 1) : scan.ends[m] <= scan.starts[m + 1]

\* C13: starts and ends always have the same length; every pair is a start
\* that was recorded (at a reading that is neither unknown nor on) and the
\* later on reading that closed it; a start still pending at the end of the
\* input is in no pair and drew no warning.
C13_OnlyClosedPairs ==
    /\ Len(scan.starts) = Len(scan.ends)
    /\ Len(scan.start_rows) = Len(scan.starts)
    /\ Len(scan.end_rows) = Len(scan.ends)
    /\ \A m \in DOMAIN scan.starts :
          /\ scan.start_rows[m] # None
          /\ scan.start_rows[m] < scan.end_rows[m]
          /\ scan.starts[m] = df[scan.start_rows[m] + 1].Date
          /\ scan.ends[m] = df[scan.end_rows[m] + 1].Date
          /\ df[scan.end_rows[m] + 1].state = on_state
          /\ df[scan.start_rows[m] + 1].state \notin {on_state, NaN}
    /\ (pc = "down_done" /\ scan.s # None) =>
          /\ \A m \in DOMAIN scan.end_rows : scan.end_rows[m] < scan.s_row
          /\ \A w \in DOMAIN scan.warns : scan.warns[w].row < scan.s_row

\* C13 witness: [off, on, off] returned its one closed pair; the start of the
\* last row is still pending.
C13_Witness ==
    /\ pc = "down_done"
    /\ States = <<off_state, on_state, off_state>>
    /\ scan.s = df[3].Date
    /\ scan.start_rows = <<0>>
    /\ scan.end_rows = <<1>>
    /\ scan.warns = <<>>

\* Rows a..b (1-based) are a maximal run of off readings that is read with no
\* interval open (it opens the input or follows an on or an unknown reading)
\* and that an on reading follows.
OffRunThenOn(a, b) ==
    /\ a <= b
    /\ b < Len(df)
    /\ \A k \in a..b : df[k].state = off_state
    /\ a = 1 \/ df[a - 1].state \in {on_state, NaN}
    /\ df[b + 1].state = on_state

\* C19: a run of k off readings read with no interval open and followed by an
\* on reading gives an interval exactly when k is odd, and that interval
\* starts at the last off of the run and ends at the on reading.
C19_OffRunParity ==
    pc = "down_done" =>
        \A a, b \in DOMAIN df :
            OffRunThenOn(a, b) =>
                LET closed == {m \in DOMAIN scan.end_rows : scan.end_rows[m] = b}
                IN  /\ (closed # {}) <=> ((b - a + 1) % 2 = 1)
                    /\ \A m \in closed :
                          /\ scan.start_rows[m] = b - 1
                          /\ scan.starts[m] = df[b].Date
                          /\ scan.ends[m] = df[b + 1].Date

\* C19 witness: [off, off, off, on] gave one interval, from the third off.
C19_Witness ==
    /\ pc = "down_done"
    /\ States = <<off_state, off_state, off_state, on_state>>
    /\ scan.starts = <<df[3].Date>>
    /\ scan.end_rows = <<3>>

\* ---- further properties of do_parallel_queries (checked under SpecParallel)

\* The query whose fetch gave outcome o.
FetchedQuery(o) == IF IsError(o) THEN o.exception.query ELSE o.frame[1].query

\* C14: never more than max_workers fetches run at once, whatever the number
\* of queries; and when the call ends, by return or by raise, a fetch has
\* run to its end for every one of the queries.
C14_WorkerBoundAndAllFetched ==
    /\ NumRunning <= max_workers
    /\ pc \in {"returned", "raised"} =>
          /\ Len(futures) = Len(queries)
          /\ \A k \in DOMAIN queries :
                /\ futures[k] = "FINISHED"
                /\ outcome[k] # NotRun
                /\ FetchedQuery(outcome[k]) = queries[k]

\* C14 witness: three queries and two workers; both workers are busy and the
\* third query waits in the pool's queue.
C14_Witness ==
    /\ Len(queries) = 3
    /\ max_workers = 2
    /\ NumRunning = 2
    /\ Len(futures) = 3
    /\ futures[3] = "PENDING"

\* ---- further properties of interval_overlap_any (checked under SpecOverlapLong)

\* C17 (as claimed): the number of int2 candidates examined over the whole
\* run is never more than 2 * (n + m).  (The other half of the claim, that
\* start_j never decreases, is part of C17_CursorMonotoneAtMostNTimesM.)
C17_ExaminationsLinear == examined <= 2 * (Len(int1) + Len(int2))

\* C17 (amended): start_j never decreases, and the number of int2 candidates
\* examined over the whole run is at most n * m.
C17_CursorMonotoneAtMostNTimesM ==
    /\ [](examined <= Len(int1) * Len(int2))
    /\ [][start_j' >= start_j]_vars

\* C17 witness: the run is over and every one of five intervals of int1 has
\* examined every one of five intervals of int2.
C17_Witness ==
    /\ pc = "overlap_done"
    /\ Len(int1) = 5 /\ Len(int2) = 5
    /\ examined = Len(int1) * Len(int2)

-----------------------------------------------------------------------------
(* MySamplerQuery.to_web_params()                     mya/mysampler.py 39-70 *)

\* lines 14-18
MILLIS_PER_SECOND == 1000
MILLIS_PER_MINUTE == 60000
MILLIS_PER_HOUR == 3600000
MILLIS_PER_DAY == 86400000
MILLIS_PER_WEEK == 604800000

\* The characters an interval string is drawn from.
Digits == {"0", "1", "2", "9"}

Chars == Digits \cup {"s", "m", "h", "d", "w", "x"}

IntervalStrings == UNION {[1..n -> Chars] : n \in 0..MaxIntervalLen}

InitWebParams ==
    /\ pc = "to_web_params"
    /\ interval \in IntervalStrings
    /\ web = NoParams
    /\ IdleTrips
    /\ IdleSamplerWeb
    /\ IdleConfig

\* line 48: re.match('^(\d+)(\D)$', self.interval)
Matches(str) ==
    /\ Len(str) >= 2
    /\ \A k \in 1..(Len(str) - 1) : str[k] \in Digits
    /\ str[Len(str)] \notin Digits

\* match.group(1) and match.group(2)
Group1(str) == SubSeq(str, 1, Len(str) - 1)

Group2(str) == str[Len(str)]

DigitValue(c) ==
    CASE c = "0" -> 0
      [] c = "1" -> 1
      [] c = "2" -> 2
      [] c = "9" -> 9

\* line 51: int() of a string of decimal digits
RECURSIVE int(_)
int(str) ==
    IF str = <<>> THEN 0
    ELSE 10 * int(SubSeq(str, 1, Len(str) - 1)) + DigitValue(str[Len(str)])

Units == {"s", "m", "h", "d", "w"}

\* lines 54-63: the millis chosen for a supported unit
Millis(unit) ==
    CASE unit = "s" -> MILLIS_PER_SECOND
      [] unit = "m" -> MILLIS_PER_MINUTE
      [] unit = "h" -> MILLIS_PER_WEEK
      [] unit = "d" -> MILLIS_PER_DAY
      [] unit = "w" -> MILLIS_PER_WEEK

\* line 66: int(millis) * multiplier, in thousands.  Python's integers are
\* unbounded and every MILLIS_PER_ constant is a multiple of 1000, so the
\* product is exactly 1000 times this number.
Thousands(millis, multiplier) == (millis \div MILLIS_PER_SECOND) * multiplier

\* lines 47-70
ToWebParams ==
    /\ pc = "to_web_params"
    /\ IF Matches(interval)
       THEN LET multiplier == int(Group1(interval))
                unit == Group2(interval)
            IN  IF unit \in Units
                THEN /\ web' = [s |-> Thousands(Millis(unit), multiplier), error |-> ""]
                     /\ pc' = "web_returned"
                ELSE /\ web' = [s |-> None, error |-> "ValueError"]
                     /\ pc' = "web_raised"
       ELSE /\ web' = [s |-> None, error |-> "ValueError"]
            /\ pc' = "web_raised"
    /\ UNCHANGED <<interval, tripVars, swVars, cfVars>>

NextWebParams == ToWebParams

SpecWebParams == InitWebParams /\ [][NextWebParams]_vars

\* The number of milliseconds in one unit.
MillisInOne(unit) ==
    CASE unit = "s" -> MILLIS_PER_SECOND
      [] unit = "m" -> MILLIS_PER_MINUTE
      [] unit = "h" -> MILLIS_PER_HOUR
      [] unit = "d" -> MILLIS_PER_DAY
      [] unit = "w" -> MILLIS_PER_WEEK

\* C15: for an interval <k><unit> with unit in {s, m, h, d, w} the call returns
\* with 's' = k times the milliseconds in one unit (both sides in thousands);
\* with any other unit suffix it raises.
C15_SpacingIsKTimesUnitMillis ==
    (pc # "to_web_params" /\ Matches(interval)) =>
        IF Group2(interval) \in Units
        THEN /\ pc = "web_returned"
             /\ web.error = ""
             /\ web.s = int(Group1(interval)) * (MillisInOne(Group2(interval)) \div 1000)
        ELSE /\ pc = "web_raised"
             /\ web.error = "ValueError"

-----------------------------------------------------------------------------
(* mySamplerWeb(query, mysampler_url, options)       mya/mysampler.py 73-126 *)

\* A sample of a channel's data: a value 'v', or a disconnect event (a 't' key
\* and no 'v').
SampleValues == {[v |-> 0, t |-> FALSE], [v |-> 1, t |-> FALSE], [v |-> None, t |-> TRUE]}

\* line 116: the string "<undefined>" in a column of values.
Undefined == -3

\* The time stamp of the n-th sample, "<n>T..." as the server writes it.
SampleTime(n) == [time |-> n, sep |-> "T"]

\* A response holding c channels with k samples each, sampled at the same times.
Responses ==
    UNION {[1..c -> [1..k -> SampleValues]] : c \in 1..MaxChannels, k \in 0..MaxSamples}

\* One element of channels[channel]['data'].
Sample(ch, n) ==
    [d |-> SampleTime(n), v |-> channels[ch][n].v, t |-> channels[ch][n].t]

InitSamplerWeb ==
    /\ pc = "for_channel"
    /\ channels \in Responses
    /\ samples = [Date |-> <<>>, columns |-> <<>>]
    /\ types = {}
    /\ locals = [idx |-> 0, v |-> <<>>, n |-> 0]
    /\ web_df = NoTable
    /\ IdleTrips
    /\ IdleWebParams
    /\ IdleConfig

\* lines 106-107: the next channel, or the end of the loop
ForChannel ==
    /\ pc = "for_channel"
    /\ IF locals.idx < Len(channels)
       THEN /\ locals' = [locals EXCEPT !.v = <<>>, !.n = 0]
            /\ pc' = "for_sample"
       ELSE /\ pc' = "build"
            /\ UNCHANGED locals
    /\ UNCHANGED <<channels, samples, types, web_df, tripVars, wpVars, cfVars>>

\* line 110: the channel whose sample times fill samples['Date']
DateChannel == 1

\* lines 108-120: one sample of the channel, or the channel's list stored
ForSample ==
    /\ pc = "for_sample"
    /\ LET ch == locals.idx + 1
       IN  IF locals.n < Len(channels[ch])
           THEN LET sample == Sample(ch, locals.n + 1)
                IN  /\ samples' = IF locals.idx = DateChannel
                                  THEN [samples EXCEPT !.Date = Append(@, sample.d)]
                                  ELSE samples
                    /\ IF sample.t
                       THEN /\ locals' = [locals EXCEPT !.v = Append(@, Undefined),
                                                        !.n = @ + 1]
                            /\ types' = types \cup {ch}
                       ELSE /\ locals' = [locals EXCEPT !.v = Append(@, sample.v),
                                                        !.n = @ + 1]
                            /\ UNCHANGED types
                    /\ UNCHANGED pc
           ELSE /\ samples' = [samples EXCEPT !.columns = Append(@, locals.v)]
                /\ locals' = [locals EXCEPT !.idx = @ + 1]
                /\ pc' = "for_channel"
                /\ UNCHANGED types
    /\ UNCHANGED <<channels, web_df, tripVars, wpVars, cfVars>>

\* line 123: str.replace("T", "_") on one Date entry
Replace(d) == [d EXCEPT !.sep = IF @ = "T" THEN "_" ELSE @]

\* lines 122-126: pd.DataFrame(samples) needs all lists of one length
BuildFrame ==
    /\ pc = "build"
    /\ IF \A ch \in DOMAIN samples.columns : Len(samples.columns[ch]) = Len(samples.Date)
       THEN /\ web_df' = [error |-> "",
                          Date |-> [n \in DOMAIN samples.Date |-> Replace(samples.Date[n])],
                          columns |-> samples.columns,
                          dtypes |-> [ch \in DOMAIN samples.columns |->
                                         IF ch \in types THEN "str" ELSE "float"]]
            /\ pc' = "web_df_returned"
       ELSE /\ web_df' = [NoTable EXCEPT !.error = "ValueError"]
            /\ pc' = "web_df_raised"
    /\ UNCHANGED <<channels, samples, types, locals, tripVars, wpVars, cfVars>>

NextSamplerWeb == ForChannel \/ ForSample \/ BuildFrame

SpecSamplerWeb == InitSamplerWeb /\ [][NextSamplerWeb]_vars

\* C16: for a response of c >= 1 channels with k samples each, the call returns
\* a table of k rows: Date holds each sample time once, in order, and there is
\* one value column of k values per channel.
C16_TableOfKRowsPerResponse ==
    pc \in {"web_df_returned", "web_df_raised"} =>
        LET k == Len(channels[1])
        IN  /\ pc = "web_df_returned"
            /\ web_df.error = ""
            /\ Len(web_df.Date) = k
            /\ \A n \in 1..k : web_df.Date[n].time = n
            /\ Len(web_df.columns) = Len(channels)
            /\ \A ch \in DOMAIN channels : Len(web_df.columns[ch]) = k

-----------------------------------------------------------------------------
(* process_input_file(filename)                                main.py 14-38 *)

\* line 21
valid_subs == {"mysampler", "mydata"}

\* The subcommands a config file may name.
Subcommands == valid_subs \cup {"myget"}

\* The parsed config files: a subcommand and a list of query entries, each with
\* its number of periods.
Configs ==
    [subcommand : Subcommands,
     queries : UNION {[1..n -> 0..MaxPeriods] : n \in 0..MaxConfigQueries}]

InitConfig ==
    /\ pc = "check_cmd"
    /\ config \in Configs
    /\ cmd = ""
    /\ cfg_queries = <<>>
    /\ cfg_at = [query |-> 0, period |-> 0]
    /\ cfg_exc = ""
    /\ IdleTrips
    /\ IdleWebParams
    /\ IdleSamplerWeb

\* lines 25-27
CheckSubcommand ==
    /\ pc = "check_cmd"
    /\ cmd' = config.subcommand
    /\ IF cmd' \notin valid_subs
       THEN /\ cfg_exc' = "Unrecognized subcommand"
            /\ pc' = "config_raised"
       ELSE /\ pc' = "for_query"
            /\ UNCHANGED cfg_exc
    /\ UNCHANGED <<config, cfg_queries, cfg_at, tripVars, wpVars, swVars>>

\* lines 29-30, and line 38 once the loop is over
ForQuery ==
    /\ pc = "for_query"
    /\ IF cfg_at.query < Len(config.queries)
       THEN /\ cfg_at' = [cfg_at EXCEPT !.period = 0]
            /\ pc' = "for_period"
       ELSE /\ pc' = "config_returned"
            /\ UNCHANGED cfg_at
    /\ UNCHANGED <<config, cmd, cfg_queries, cfg_exc, tripVars, wpVars, swVars>>

\* lines 33 and 35: the query object from_config builds for one period
FromConfig(type) == [type |-> type, query |-> cfg_at.query, period |-> cfg_at.period]

\* lines 32-33: the list after the first if statement
AfterFirstIf ==
    IF cmd = "mysampler" THEN Append(cfg_queries, FromConfig("MySamplerQuery"))
    ELSE cfg_queries

\* lines 31-37: one period of the query entry, or the end of its periods
ForPeriod ==
    /\ pc = "for_period"
    /\ IF cfg_at.period < config.queries[cfg_at.query + 1]
       THEN IF cmd = "mydata"
            THEN /\ cfg_queries' = Append(AfterFirstIf, FromConfig("MyDataQuery"))
                 /\ cfg_at' = [cfg_at EXCEPT !.period = @ + 1]
                 /\ UNCHANGED <<pc, cfg_exc>>
            ELSE /\ cfg_queries' = AfterFirstIf
                 /\ cfg_exc' = "Unrecognized subcommand"
                 /\ pc' = "config_raised"
                 /\ UNCHANGED cfg_at
       ELSE /\ cfg_at' = [cfg_at EXCEPT !.query = @ + 1]
            /\ pc' = "for_query"
            /\ UNCHANGED <<cfg_queries, cfg_exc>>
    /\ UNCHANGED <<config, cmd, tripVars, wpVars, swVars>>

NextConfig == CheckSubcommand \/ ForQuery \/ ForPeriod

SpecConfig == InitConfig /\ [][NextConfig]_vars

\* The type of query object that belongs to a subcommand.
QueryTypeOf(sub) == IF sub = "mysampler" THEN "MySamplerQuery" ELSE "MyDataQuery"

\* The (query entry, period) pairs of the config.
ConfigPairs ==
    {pr \in (0..MaxConfigQueries) \X (0..MaxPeriods) :
        /\ pr[1] < Len(config.queries)
        /\ pr[2] < config.queries[pr[1] + 1]}

\* C18: the call raises "Unrecognized subcommand" only when the subcommand is
\* neither 'mysampler' nor 'mydata'; for a valid subcommand it returns
\* (subcommand, queries) with one query of the matching type per (query entry,
\* period) pair, in config order.
C18_ValidSubcommandReturnsAllQueries ==
    pc \in {"config_returned", "config_raised"} =>
        IF config.subcommand \in {"mysampler", "mydata"}
        THEN /\ pc = "config_returned"
             /\ cmd = config.subcommand
             /\ Len(cfg_queries) = Cardinality(ConfigPairs)
             /\ \A a \in DOMAIN cfg_queries :
                   /\ cfg_queries[a].type = QueryTypeOf(config.subcommand)
                   /\ <<cfg_queries[a].query, cfg_queries[a].period>> \in ConfigPairs
             /\ \A a, b \in DOMAIN cfg_queries :
                   a < b => \/ cfg_queries[a].query < cfg_queries[b].query
                            \/ /\ cfg_queries[a].query = cfg_queries[b].query
                               /\ cfg_queries[a].period < cfg_queries[b].period
        ELSE /\ pc = "config_raised"
             /\ cfg_exc = "Unrecognized subcommand"

====
